---- MODULE Spec2Model ----
(***************************************************************************)
(* connectVision trimmer monitor: the cycle state machine of               *)
(* scripts/trimmer_monitor_v2.py (TrimmerMonitorApp), its monitoring       *)
(* thread, the Flask request handlers that run beside it, and the          *)
(* ConnectVisionDB calls of src/connectvision/database.py they make.       *)
(*                                                                         *)
(* Time is the value of time.time() in milliseconds.                       *)
(***************************************************************************)
EXTENDS Integers, Sequences, FiniteSets, TLC

VARIABLES
    now,               \* the wall clock, time.time(), in ms
    running,           \* self.running
    pc,                \* position of the monitoring thread in monitor_loop
    config,            \* self.config, the live TrimmerConfig
    state,             \* self.state
    cycle_id,          \* self.cycle_id
    current_lot,       \* self.current_lot
    state_start_time,  \* self.state_start_time
    total_cycles,      \* self.total_cycles
    cycles_last_hour,  \* self.cycles_last_hour
    last_telemetry,    \* self.last_telemetry
    frame_lock,        \* holder of self.frame_lock
    last_jpeg,         \* self.last_jpeg: what the encoded image shows
    last_area,         \* self.last_area
    last_present,      \* self.last_present
    loc,               \* locals of process_frame / monitor_loop
    connected,         \* ConnectVisionDB._conn is not None
    store,             \* the secondary_machines row of this machine
    trimmer_events,    \* rows inserted into trimmer_events
    telemetry_rows,    \* number of rows inserted into trimmer_telemetry
    hpc,               \* position of the configuration request in flight
    hargs,             \* its arguments
    spc,               \* position of the /status request in flight
    sloc,              \* locals of the /status request
    response,          \* the last /status response
    iter,              \* number of loop iterations started
    reqs,              \* number of requests started
    emitted,           \* log_event calls made by the loop, in order
    samples,           \* presence samples fed to the state machine
    completions,       \* times of the TRIMMING -> EMPTY transitions
    telemetry_calls,   \* log_telemetry calls made: [at, count, hour_ago]
    snapshots,         \* status values at the end of each iteration
    instants,          \* live configs that stood during this sampling step
    written,           \* per config field, the value a setter last wrote
    mpc,               \* position of the main thread in main / start / stop
    fails,             \* iterations abandoned in a row
    detector,          \* the ChuckEventDetector: cfg, prev_gray,
                       \* object_present, debounce
    returned,          \* what each call of detector.step met and returned
    roi,               \* the region of roi_selector.py, [x, y, w, h]
    key,               \* the key roi_selector.py read last
    nkeys              \* number of keys it has read

toolVars == <<detector, returned, roi, key, nkeys>>

vars == <<now, running, pc, config, state, cycle_id, current_lot,
          state_start_time, total_cycles, cycles_last_hour, last_telemetry,
          frame_lock, last_jpeg, last_area, last_present, loc, connected,
          store, trimmer_events, telemetry_rows, hpc, hargs, spc, sloc,
          response, iter, reqs, emitted, samples, completions,
          telemetry_calls, snapshots, instants, written, mpc, fails,
          toolVars>>

auxVars == <<written, mpc, fails, toolVars>>

cycleVars == <<state, cycle_id, current_lot, state_start_time, total_cycles,
               cycles_last_hour>>

loopVars == <<pc, loc, iter, samples, instants>>

statVars == <<state, cycle_id, current_lot, state_start_time, total_cycles,
              cycles_last_hour, last_telemetry, emitted, completions,
              telemetry_calls, trimmer_events, telemetry_rows>>

pubVars == <<frame_lock, last_jpeg, last_area, last_present>>

webVars == <<hpc, hargs, spc, sloc, response, reqs>>

(***************************************************************************)
(* Bounds of the model.                                                    *)
(***************************************************************************)
MaxIter == 5
WebIter == 3
MaxReq == 1

(***************************************************************************)
(* Program constants.                                                      *)
(***************************************************************************)
None == -1
FrameW == 640
FrameH == 480
DwellMs == 1000
TelemetryMs == 60000
HourMs == 3600000
SleepMs == 100
BackoffMs == 1000
WarmupMs == 1000
boot_time == 0
DefaultX == 280
DefaultY == 260
DefaultW == 80
DefaultH == 80
DefaultThreshold == 100
DefaultMinArea == 500

NoLot == "None"
Lots == {"LOT7"}

\* time.sleep(d) returns after at least d: the delays the model lets pass
Delays == {SleepMs, TelemetryMs, HourMs}
Backoffs == {BackoffMs, HourMs}

\* contour areas the presence extraction can measure
Areas == {0, 600}

\* the delays of the specification with request handlers
WebDelays == {SleepMs}
WebBackoffs == {BackoffMs + SleepMs}

EMPTY == "EMPTY"
PART_PLACED == "PLACED"
TRIMMING == "TRIMMING"

(***************************************************************************)
(* ConnectVisionDB.                                                        *)
(***************************************************************************)
\* parameters of log_event / log_telemetry that have no default
LogEventRequired == {"machine_id", "trimmer_id", "event_type"}
LogTelemetryRequired ==
    {"machine_id", "trimmer_id", "cycles_last_hour", "uptime_seconds"}

\* keywords the monitor passes
PlacedKw == {"trimmer_id", "event_type", "cycle_id", "req_lot", "area"}
PushedKw == {"trimmer_id", "event_type", "cycle_id", "req_lot", "area",
             "details"}
CycleKw == {"trimmer_id", "event_type", "cycle_id", "req_lot", "details"}
\* the keyword arguments of the log_event call of scripts/test_db.py
TestDbEventKw == {"trimmer_id", "event_type", "req_lot", "area", "details"}
TelemetryKw == {"trimmer_id", "cycles_last_hour", "uptime_seconds", "status"}

DbResults == {"ok", "Error"}

\* log_event: "TypeError" when a required argument is missing, "None" in
\* stub mode or when the insert raises mysql Error, else the new row's id
log_event(kw, conn, dbres) ==
    IF ~(LogEventRequired \subseteq kw) THEN "TypeError"
    ELSE IF ~conn THEN "None"
    ELSE IF dbres = "ok" THEN "id" ELSE "None"

\* log_telemetry: "TypeError", "True" or "False"
log_telemetry(kw, conn, dbres) ==
    IF ~(LogTelemetryRequired \subseteq kw) THEN "TypeError"
    ELSE IF ~conn THEN "False"
    ELSE IF dbres = "ok" THEN "True" ELSE "False"

\* get_active_lot: the lots it can return
get_active_lot(conn) == IF conn THEN Lots \cup {NoLot} ELSE {NoLot}

\* `value or default` of load_trimmer_config
OrDefault(v, d) == IF v = None \/ v = 0 THEN d ELSE v

TrimmerConfig(x, y, w, h, t, m) ==
    [roi_x |-> x, roi_y |-> y, roi_w |-> w, roi_h |-> h,
     threshold |-> t, min_area |-> m]

StubConfig == TrimmerConfig(DefaultX, DefaultY, DefaultW, DefaultH,
                            DefaultThreshold, DefaultMinArea)

\* load_trimmer_config on a connected store whose row is `row`
load_trimmer_config(row) ==
    TrimmerConfig(OrDefault(row.roi_x, DefaultX), OrDefault(row.roi_y, DefaultY),
                  OrDefault(row.roi_w, DefaultW), OrDefault(row.roi_h, DefaultH),
                  OrDefault(row.threshold, DefaultThreshold),
                  OrDefault(row.min_area, DefaultMinArea))

(***************************************************************************)
(* process_frame: the region of the frame that is sampled.                 *)
(***************************************************************************)
\* a Python slice bound i on an axis of length n
SliceIndex(i, n) == IF i < 0 THEN (IF i + n < 0 THEN 0 ELSE i + n)
                    ELSE (IF i > n THEN n ELSE i)

\* frame[a:b] on an axis of length n: <<first, past-last>>
Slice(a, b, n) == <<SliceIndex(a, n), SliceIndex(b, n)>>

FullFrame == [rows |-> <<0, FrameH>>, cols |-> <<0, FrameW>>]

\* roi_frame = frame[y:y+h, x:x+w] if (y+h <= 480 and x+w <= 640) else frame
ExtractRoi(x, y, w, h) ==
    IF y + h <= FrameH /\ x + w <= FrameW
    THEN [rows |-> Slice(y, y + h, FrameH), cols |-> Slice(x, x + w, FrameW)]
    ELSE FullFrame

\* an array with no rows or no columns; cv2.cvtColor raises on it
IsEmpty(r) == r.rows[1] >= r.rows[2] \/ r.cols[1] >= r.cols[2]

CycleIdFromCount(t) == total_cycles + 1

\* cycle_id = int(current_time * 1000); the clock is already in ms
CycleIdOf(t) == t

StatusNow == <<last_present, last_area, state, total_cycles, current_lot>>

(***************************************************************************)
(* The state after main() has loaded the configuration and constructed     *)
(* TrimmerMonitorApp.                                                      *)
(***************************************************************************)
\* a row whose configuration columns are NULL
NullRow == TrimmerConfig(None, None, None, None, None, None)
\* rows the store can hold when the monitor starts
StoreRows == {TrimmerConfig(100, 120, 50, 60, 90, 500)}

\* no setter has written a field of the live configuration
NoWrites == [roi_x |-> <<>>, roi_y |-> <<>>, roi_w |-> <<>>, roi_h |-> <<>>,
             threshold |-> <<>>, min_area |-> <<>>]

NoLocals == [x |-> 0, y |-> 0, w |-> 0, h |-> 0, roi |-> FullFrame,
             thr |-> 0, min_area |-> 0, area |-> 0, is_present |-> FALSE,
             current_time |-> 0, raised |-> "none"]

NoImage == [rect |-> <<0, 0, 0, 0>>, roi |-> FullFrame, state |-> "none",
            lot |-> NoLot, area |-> 0]

\* the fields TrimmerMonitorApp.__init__ sets, and the history of the run
\* roi = [220, 140, 200, 200]
InitialRoi == <<220, 140, 200, 200>>

\* cv2.waitKey(30) & 0xFF when no key is down
NoKey == 255

\* the detector of app.py and the selector as they start
InitTools ==
    /\ detector = [cfg |-> [min_event_area |-> 500, debounce_frames |-> 10],
                   prev_gray |-> "None", object_present |-> FALSE,
                   debounce |-> 0]
    /\ returned = <<>>
    /\ roi = InitialRoi
    /\ key = NoKey
    /\ nkeys = 0

InitApp ==
    /\ now = boot_time + WarmupMs
    /\ running = FALSE
    /\ pc = "init"
    /\ state = EMPTY
    /\ cycle_id = None
    /\ current_lot = NoLot
    /\ state_start_time = boot_time
    /\ total_cycles = 0
    /\ cycles_last_hour = <<>>
    /\ last_telemetry = boot_time
    /\ frame_lock = "free"
    /\ last_jpeg = NoImage
    /\ last_area = 0
    /\ last_present = FALSE
    /\ loc = NoLocals
    /\ trimmer_events = <<>>
    /\ telemetry_rows = 0
    /\ hpc = "idle"
    /\ hargs = <<>>
    /\ spc = "idle"
    /\ sloc = [at |-> 0, cycles |-> 0, seen |-> 0, present |-> FALSE,
               area |-> 0, state |-> EMPTY, total |-> 0]
    /\ response = <<FALSE, 0, EMPTY, 0, NoLot>>
    /\ iter = 0
    /\ reqs = 0
    /\ emitted = <<>>
    /\ samples = <<>>
    /\ completions = <<>>
    /\ telemetry_calls = <<>>
    /\ snapshots = {<<FALSE, 0, EMPTY, 0, NoLot>>}
    /\ instants = {}
    /\ written = NoWrites
    /\ fails = 0

Init ==
    /\ InitApp
    /\ InitTools
    /\ connected \in BOOLEAN
    /\ store \in (IF connected THEN StoreRows ELSE {NullRow})
    /\ config = (IF connected THEN load_trimmer_config(store) ELSE StubConfig)
    /\ mpc = "ready"

(***************************************************************************)
(* TrimmerMonitorApp.start and monitor_loop.                               *)
(***************************************************************************)
\* start(): self.running = True, the monitoring thread starts
start ==
    /\ pc = "init"
    /\ running' = TRUE
    /\ pc' = "loop"
    /\ UNCHANGED <<now, config, statVars, pubVars, loc, connected, store,
                   webVars, iter, samples, snapshots, instants>>
    /\ mpc = "ready"
    /\ mpc' = "serving"
    /\ UNCHANGED <<written, fails, toolVars>>

\* while self.running: (an iteration begins; process_frame captures a frame)
LoopTop(bound) ==
    /\ pc = "loop"
    /\ running
    /\ iter < bound
    /\ iter' = iter + 1
    /\ loc' = [loc EXCEPT !.raised = "none"]
    /\ pc' = "roi_x"
    /\ UNCHANGED <<now, running, config, statVars, pubVars, connected,
                   store, webVars, samples, snapshots, instants>>
    /\ UNCHANGED auxVars

ReadRoiXCached ==
    /\ pc = "roi_x"
    /\ loc' = [loc EXCEPT !.x = IF iter > 1 THEN loc.x ELSE config.roi_x]
    /\ instants' = {config}
    /\ pc' = "roi_y"
    /\ UNCHANGED <<now, running, config, statVars, pubVars, connected, store,
                   webVars, iter, samples, snapshots>>
    /\ UNCHANGED auxVars

\* x = self.config.roi_x
ReadRoiX ==
    /\ pc = "roi_x"
    /\ loc' = [loc EXCEPT !.x = config.roi_x]
    /\ instants' = {config}
    /\ pc' = "roi_y"
    /\ UNCHANGED <<now, running, config, statVars, pubVars, connected, store,
                   webVars, iter, samples, snapshots>>
    /\ UNCHANGED auxVars

\* y = self.config.roi_y
ReadRoiY ==
    /\ pc = "roi_y"
    /\ loc' = [loc EXCEPT !.y = config.roi_y]
    /\ pc' = "roi_w"
    /\ UNCHANGED <<now, running, config, statVars, pubVars, connected, store,
                   webVars, iter, samples, snapshots, instants>>
    /\ UNCHANGED auxVars

\* w = self.config.roi_w
ReadRoiW ==
    /\ pc = "roi_w"
    /\ loc' = [loc EXCEPT !.w = config.roi_w]
    /\ pc' = "roi_h"
    /\ UNCHANGED <<now, running, config, statVars, pubVars, connected, store,
                   webVars, iter, samples, snapshots, instants>>
    /\ UNCHANGED auxVars

\* h = self.config.roi_h; roi_frame = ...; gray = cv2.cvtColor(roi_frame)
ReadRoiH ==
    /\ pc = "roi_h"
    /\ LET r == ExtractRoi(loc.x, loc.y, loc.w, config.roi_h) IN
         /\ loc' = [loc EXCEPT !.h = config.roi_h, !.roi = r,
                       !.raised = IF IsEmpty(r) THEN "cvtColor" ELSE "none"]
         /\ pc' = IF IsEmpty(r) THEN "except" ELSE "threshold"
    /\ UNCHANGED <<now, running, config, statVars, pubVars, connected, store,
                   webVars, iter, samples, snapshots, instants>>
    /\ UNCHANGED auxVars

\* cv2.threshold(gray, self.config.threshold, ...); contours; total_area
ReadThreshold ==
    /\ pc = "threshold"
    /\ \E a \in Areas :
         loc' = [loc EXCEPT !.thr = config.threshold, !.area = a]
    /\ pc' = "min_area"
    /\ UNCHANGED <<now, running, config, statVars, pubVars, connected, store,
                   webVars, iter, samples, snapshots, instants>>
    /\ UNCHANGED auxVars

\* is_present = total_area >= self.config.min_area
ReadMinArea ==
    /\ pc = "min_area"
    /\ loc' = [loc EXCEPT !.min_area = config.min_area,
                  !.is_present = (loc.area >= config.min_area)]
    /\ pc' = "publish"
    /\ UNCHANGED <<now, running, config, statVars, pubVars, connected, store,
                   webVars, iter, samples, snapshots, instants>>
    /\ UNCHANGED auxVars

\* draw the rectangle and the status text, encode, and under frame_lock set
\* last_jpeg, last_area, last_present
Publish ==
    /\ pc = "publish"
    /\ frame_lock = "free"
    /\ last_jpeg' = [rect |-> <<loc.x, loc.y, loc.w, loc.h>>, roi |-> loc.roi,
                     state |-> state, lot |-> current_lot, area |-> loc.area]
    /\ last_area' = loc.area
    /\ last_present' = loc.is_present
    /\ instants' = {}
    /\ pc' = "sm"
    /\ UNCHANGED <<now, running, config, statVars, frame_lock, loc, connected,
                   store, webVars, iter, samples, snapshots>>
    /\ UNCHANGED auxVars

EventNoLot(type) == [type |-> type, cycle_id |-> cycle_id, lot |-> NoLot,
                     at |-> iter]

\* a log_event call as the sink would receive it
Event(type) == [type |-> type, cycle_id |-> cycle_id, lot |-> current_lot,
                at |-> iter]

DwellElapsedGe(time_in_state) == time_in_state >= DwellMs

\* elif time_in_state > 1.0
DwellElapsed(time_in_state) == time_in_state > DwellMs

BranchNoFalseStart(st, is_present, time_in_state) ==
    IF st = EMPTY THEN (IF is_present THEN "place" ELSE "stay")
    ELSE IF ~is_present THEN "push"
    ELSE IF st = PART_PLACED /\ DwellElapsed(time_in_state) THEN "trim"
    ELSE "stay"

\* the branch of the if / elif chain that a sample takes
Branch(st, is_present, time_in_state) ==
    IF st = EMPTY THEN (IF is_present THEN "place" ELSE "stay")
    ELSE IF st = PART_PLACED THEN
        (IF ~is_present THEN "false_start"
         ELSE IF DwellElapsed(time_in_state) THEN "trim" ELSE "stay")
    ELSE IF st = TRIMMING THEN (IF ~is_present THEN "push" ELSE "stay")
    ELSE "stay"

\* current_time = time.time(); the branch of the state machine up to its
\* first database call
StateMachine ==
    /\ pc = "sm"
    /\ LET current_time == now
           time_in_state == current_time - state_start_time
           br == Branch(state, loc.is_present, time_in_state)
       IN
       /\ loc' = [loc EXCEPT !.current_time = current_time]
       /\ samples' = Append(samples, [present |-> loc.is_present,
                                      t |-> current_time, from |-> state])
       /\ state' = CASE br = "place" -> PART_PLACED
                     [] br = "false_start" -> EMPTY
                     [] br = "trim" -> TRIMMING
                     [] br = "push" -> EMPTY
                     [] OTHER -> state
       /\ state_start_time' = IF br = "stay" THEN state_start_time
                              ELSE current_time
       /\ cycle_id' = CASE br = "place" -> CycleIdOf(current_time)
                        [] br = "false_start" -> None
                        [] OTHER -> cycle_id
       /\ completions' = IF br = "push" THEN Append(completions, current_time)
                         ELSE completions
       /\ pc' = CASE br = "place" -> "get_lot"
                  [] br = "push" -> "log_pushed"
                  [] OTHER -> "telemetry"
    /\ UNCHANGED <<now, running, config, current_lot, total_cycles,
                   cycles_last_hour, last_telemetry, emitted, telemetry_calls,
                   trimmer_events, telemetry_rows, pubVars, connected, store,
                   webVars, iter, snapshots, instants>>
    /\ UNCHANGED auxVars

\* self.current_lot = self.db.get_active_lot(self.machine_id)
GetLot ==
    /\ pc = "get_lot"
    /\ current_lot' \in get_active_lot(connected)
    /\ pc' = "log_placed"
    /\ UNCHANGED <<now, running, config, state, cycle_id, state_start_time,
                   total_cycles, cycles_last_hour, last_telemetry, emitted,
                   completions, telemetry_calls, trimmer_events,
                   telemetry_rows, pubVars, loc, connected, store, webVars,
                   iter, samples, snapshots, instants>>
    /\ UNCHANGED auxVars

\* self.db.log_event(trimmer_id=..., event_type="placed_in", ...)
LogPlaced ==
    /\ pc = "log_placed"
    /\ emitted' = Append(emitted, Event("placed_in"))
    /\ \E dbres \in DbResults :
         LET r == log_event(PlacedKw, connected, dbres) IN
           /\ trimmer_events' = IF r = "id"
                                THEN Append(trimmer_events, Event("placed_in"))
                                ELSE trimmer_events
           /\ loc' = [loc EXCEPT !.raised = IF r = "TypeError"
                                              THEN "log_event" ELSE "none"]
           /\ pc' = IF r = "TypeError" THEN "except" ELSE "telemetry"
    /\ UNCHANGED <<now, running, config, cycleVars, last_telemetry,
                   completions, telemetry_calls, telemetry_rows, pubVars,
                   connected, store, webVars, iter, samples, snapshots,
                   instants>>
    /\ UNCHANGED auxVars

\* self.db.log_event(..., event_type="pushed_out", ...);
\* self.db.log_event(..., event_type="CYCLE", ...); total_cycles += 1;
\* cycles_last_hour.append(current_time); cycle_id = None; current_lot = None
LogPushed ==
    /\ pc = "log_pushed"
    /\ \E dbres1 \in DbResults, dbres2 \in DbResults :
         LET r1 == log_event(PushedKw, connected, dbres1)
             r2 == log_event(CycleKw, connected, dbres2)
             rows1 == IF r1 = "id"
                      THEN Append(trimmer_events, Event("pushed_out"))
                      ELSE trimmer_events
         IN
         IF r1 = "TypeError" THEN
             /\ emitted' = Append(emitted, Event("pushed_out"))
             /\ loc' = [loc EXCEPT !.raised = "log_event"]
             /\ pc' = "except"
             /\ UNCHANGED <<trimmer_events, total_cycles, cycles_last_hour,
                            cycle_id, current_lot>>
         ELSE IF r2 = "TypeError" THEN
             /\ emitted' = emitted \o <<Event("pushed_out"), Event("CYCLE")>>
             /\ trimmer_events' = rows1
             /\ loc' = [loc EXCEPT !.raised = "log_event"]
             /\ pc' = "except"
             /\ UNCHANGED <<total_cycles, cycles_last_hour, cycle_id,
                            current_lot>>
         ELSE
             /\ emitted' = emitted \o <<Event("pushed_out"), Event("CYCLE")>>
             /\ trimmer_events' = IF r2 = "id"
                                  THEN Append(rows1, Event("CYCLE"))
                                  ELSE rows1
             /\ total_cycles' = total_cycles + 1
             /\ cycles_last_hour' = Append(cycles_last_hour, loc.current_time)
             /\ cycle_id' = None
             /\ current_lot' = NoLot
             /\ pc' = "telemetry"
             /\ UNCHANGED loc
    /\ UNCHANGED <<now, running, config, state, state_start_time,
                   last_telemetry, completions, telemetry_calls,
                   telemetry_rows, pubVars, connected, store, webVars,
                   iter, samples, snapshots, instants>>
    /\ UNCHANGED auxVars

\* [t for t in ts if t > hour_ago]
Prune(ts, hour_ago) == SelectSeq(ts, LAMBDA t : t > hour_ago)

\* if current_time - self.last_telemetry >= 60: prune, log_telemetry,
\* self.last_telemetry = current_time
Telemetry ==
    /\ pc = "telemetry"
    /\ IF loc.current_time - last_telemetry >= TelemetryMs THEN
         LET hour_ago == loc.current_time - HourMs
             kept == Prune(cycles_last_hour, hour_ago)
         IN
         /\ cycles_last_hour' = kept
         /\ telemetry_calls' = Append(telemetry_calls,
                [at |-> loc.current_time, count |-> Len(kept),
                 kept |-> kept, seen |-> Len(completions)])
         /\ \E dbres \in DbResults :
              LET r == log_telemetry(TelemetryKw, connected, dbres) IN
                /\ telemetry_rows' = IF r = "True" THEN telemetry_rows + 1
                                     ELSE telemetry_rows
                /\ last_telemetry' = IF r = "TypeError" THEN last_telemetry
                                     ELSE loc.current_time
                /\ loc' = [loc EXCEPT !.raised = IF r = "TypeError"
                                       THEN "log_telemetry" ELSE "none"]
                /\ pc' = IF r = "TypeError" THEN "except" ELSE "sleep"
       ELSE
         /\ pc' = "sleep"
         /\ UNCHANGED <<cycles_last_hour, telemetry_calls, telemetry_rows,
                        last_telemetry, loc>>
    /\ UNCHANGED <<now, running, config, state, cycle_id, current_lot,
                   state_start_time, total_cycles, emitted, completions,
                   trimmer_events, pubVars, connected, store, webVars,
                   iter, samples, snapshots, instants>>
    /\ UNCHANGED auxVars

\* time.sleep(0.1): the iteration ends
Sleep(delays) ==
    /\ pc = "sleep"
    /\ \E d \in delays : now' = now + d
    /\ snapshots' = snapshots \cup {StatusNow}
    /\ pc' = "loop"
    /\ UNCHANGED <<running, config, statVars, pubVars, loc, connected, store,
                   webVars, iter, samples, instants>>
    /\ fails' = 0
    /\ UNCHANGED <<written, mpc, toolVars>>

\* except Exception: print; time.sleep(1): the iteration is abandoned
Except(delays) ==
    /\ pc = "except"
    /\ \E d \in delays : now' = now + d
    /\ snapshots' = snapshots \cup {StatusNow}
    /\ instants' = {}
    /\ pc' = "loop"
    /\ UNCHANGED <<running, config, statVars, pubVars, loc, connected, store,
                   webVars, iter, samples>>
    /\ fails' = fails + 1
    /\ UNCHANGED <<written, mpc, toolVars>>


(***************************************************************************)
(* The request handlers of setup_routes.                                   *)
(***************************************************************************)
\* request bodies
RoiArgs == {<<700, 0, 50, 50>>, <<-10, 0, 50, 50>>, <<0, 0, 0, 50>>}
ThresholdArgs == {0, 200}
MinAreaArgs == {0, 700}

\* positions of process_frame between its first and last read of the config
SamplingPcs == {"roi_y", "roi_w", "roi_h", "threshold", "min_area"}

Seen(c) == IF pc \in SamplingPcs THEN instants \cup {c} ELSE instants

\* /set_roi: self.config.roi_x = int(data['x'])
SetRoiX ==
    /\ hpc = "idle"
    /\ reqs < MaxReq
    /\ \E a \in RoiArgs :
         /\ hargs' = a
         /\ config' = [config EXCEPT !.roi_x = a[1]]
    /\ reqs' = reqs + 1
    /\ hpc' = "set_roi_y"
    /\ instants' = Seen(config')
    /\ UNCHANGED <<now, running, statVars, pubVars, connected, store, pc, loc,
                   iter, samples, snapshots, spc, sloc, response>>
    /\ written' = [written EXCEPT !.roi_x = <<hargs'[1]>>]
    /\ UNCHANGED <<mpc, fails, toolVars>>

\* self.config.roi_y = int(data['y'])
SetRoiY ==
    /\ hpc = "set_roi_y"
    /\ config' = [config EXCEPT !.roi_y = hargs[2]]
    /\ hpc' = "set_roi_w"
    /\ instants' = Seen(config')
    /\ UNCHANGED <<now, running, statVars, pubVars, connected, store, pc, loc,
                   iter, samples, snapshots, spc, sloc, response, hargs, reqs>>
    /\ written' = [written EXCEPT !.roi_y = <<hargs[2]>>]
    /\ UNCHANGED <<mpc, fails, toolVars>>

\* self.config.roi_w = int(data['w'])
SetRoiW ==
    /\ hpc = "set_roi_w"
    /\ config' = [config EXCEPT !.roi_w = hargs[3]]
    /\ hpc' = "set_roi_h"
    /\ instants' = Seen(config')
    /\ UNCHANGED <<now, running, statVars, pubVars, connected, store, pc, loc,
                   iter, samples, snapshots, spc, sloc, response, hargs, reqs>>
    /\ written' = [written EXCEPT !.roi_w = <<hargs[3]>>]
    /\ UNCHANGED <<mpc, fails, toolVars>>

\* self.config.roi_h = int(data['h']); return
SetRoiH ==
    /\ hpc = "set_roi_h"
    /\ config' = [config EXCEPT !.roi_h = hargs[4]]
    /\ hpc' = "idle"
    /\ instants' = Seen(config')
    /\ UNCHANGED <<now, running, statVars, pubVars, connected, store, pc, loc,
                   iter, samples, snapshots, spc, sloc, response, hargs, reqs>>
    /\ written' = [written EXCEPT !.roi_h = <<hargs[4]>>]
    /\ UNCHANGED <<mpc, fails, toolVars>>

set_roi == SetRoiX \/ SetRoiY \/ SetRoiW \/ SetRoiH

\* /set_threshold
set_threshold ==
    /\ reqs < MaxReq
    /\ \E v \in ThresholdArgs : config' = [config EXCEPT !.threshold = v]
    /\ reqs' = reqs + 1
    /\ instants' = Seen(config')
    /\ UNCHANGED <<now, running, statVars, pubVars, connected, store, pc, loc,
                   iter, samples, snapshots, spc, sloc, response, hargs, hpc>>
    /\ written' = [written EXCEPT !.threshold = <<config'.threshold>>]
    /\ UNCHANGED <<mpc, fails, toolVars>>

\* /set_min_area
set_min_area ==
    /\ reqs < MaxReq
    /\ \E v \in MinAreaArgs : config' = [config EXCEPT !.min_area = v]
    /\ reqs' = reqs + 1
    /\ instants' = Seen(config')
    /\ UNCHANGED <<now, running, statVars, pubVars, connected, store, pc, loc,
                   iter, samples, snapshots, spc, sloc, response, hargs, hpc>>
    /\ written' = [written EXCEPT !.min_area = <<config'.min_area>>]
    /\ UNCHANGED <<mpc, fails, toolVars>>

\* save_trimmer_config: the row after the UPDATE, which can fail
save_trimmer_config(c, conn, dbres, row) ==
    IF conn /\ dbres = "ok" THEN c ELSE row

\* /save_config
SaveConfig(bound) ==
    /\ reqs < bound
    /\ \E dbres \in DbResults :
         store' = save_trimmer_config(config, connected, dbres, store)
    /\ reqs' = reqs + 1
    /\ UNCHANGED <<now, running, config, statVars, pubVars, connected, pc,
                   loc, iter, samples, snapshots, instants, spc, sloc,
                   response, hargs, hpc>>
    /\ UNCHANGED auxVars

save_config == SaveConfig(MaxReq)

\* /reload_config: new_config = load_trimmer_config(); if new_config:
\* self.config = new_config
ReloadConfig(bound) ==
    /\ reqs < bound
    /\ \E dbres \in DbResults :
         /\ config' = IF ~connected THEN StubConfig
                      ELSE IF dbres = "ok" THEN load_trimmer_config(store)
                      ELSE config
         /\ written' = IF connected /\ dbres = "Error" THEN written
                       ELSE NoWrites
    /\ reqs' = reqs + 1
    /\ instants' = Seen(config')
    /\ UNCHANGED <<now, running, statVars, pubVars, connected, store, pc, loc,
                   iter, samples, snapshots, spc, sloc, response, hargs, hpc>>
    /\ UNCHANGED <<mpc, fails, toolVars>>

reload_config_resets ==
    /\ reqs < MaxReq
    /\ \E dbres \in DbResults :
         /\ config' = IF ~connected THEN StubConfig
                      ELSE IF dbres = "ok" THEN load_trimmer_config(store)
                      ELSE config
         /\ written' = IF connected /\ dbres = "Error" THEN written
                       ELSE NoWrites
    /\ reqs' = reqs + 1
    /\ instants' = Seen(config')
    /\ state' = EMPTY
    /\ cycle_id' = None
    /\ current_lot' = NoLot
    /\ UNCHANGED <<now, running, state_start_time, total_cycles,
                   cycles_last_hour, last_telemetry, emitted, completions,
                   telemetry_calls, trimmer_events, telemetry_rows, pubVars,
                   connected, store, pc, loc, iter, samples, snapshots, spc,
                   sloc, response, hargs, hpc>>
    /\ UNCHANGED <<mpc, fails, toolVars>>

reload_config == ReloadConfig(MaxReq)

\* a configuration request takes a step
ConfigRequest ==
    set_roi \/ set_threshold \/ set_min_area \/ save_config \/ reload_config

\* /status: hour_ago = time.time() - 3600; cycles_in_hour = [...]
StatusBegin ==
    /\ spc = "idle"
    /\ reqs < MaxReq
    /\ reqs' = reqs + 1
    /\ sloc' = [sloc EXCEPT !.at = now, !.seen = Len(completions),
                   !.cycles = Len(Prune(cycles_last_hour, now - HourMs))]
    /\ spc' = "lock"
    /\ UNCHANGED <<now, running, config, statVars, pubVars, connected, store,
                   pc, loc, iter, samples, snapshots, instants, response,
                   hargs, hpc>>
    /\ UNCHANGED auxVars

\* with self.frame_lock: 'present': self.last_present, 'area': self.last_area
StatusLock ==
    /\ spc = "lock"
    /\ frame_lock = "free"
    /\ frame_lock' = "status"
    /\ sloc' = [sloc EXCEPT !.present = last_present, !.area = last_area]
    /\ spc' = "state"
    /\ UNCHANGED <<now, running, config, statVars, last_jpeg, last_area,
                   last_present, connected, store, pc, loc, iter, samples,
                   snapshots, instants, response, hargs, hpc, reqs>>
    /\ UNCHANGED auxVars

\* 'state': self.state.value
StatusReadState ==
    /\ spc = "state"
    /\ sloc' = [sloc EXCEPT !.state = state]
    /\ spc' = "total"
    /\ UNCHANGED <<now, running, config, statVars, pubVars, connected, store,
                   pc, loc, iter, samples, snapshots, instants, response,
                   hargs, hpc, reqs>>
    /\ UNCHANGED auxVars

\* 'total_cycles': self.total_cycles
StatusReadTotal ==
    /\ spc = "total"
    /\ sloc' = [sloc EXCEPT !.total = total_cycles]
    /\ spc' = "lot"
    /\ UNCHANGED <<now, running, config, statVars, pubVars, connected, store,
                   pc, loc, iter, samples, snapshots, instants, response,
                   hargs, hpc, reqs>>
    /\ UNCHANGED auxVars

StatusReadLotClears ==
    /\ spc = "lot"
    /\ response' = <<sloc.present, sloc.area, sloc.state, sloc.total,
                     current_lot>>
    /\ current_lot' = NoLot
    /\ frame_lock' = "free"
    /\ spc' = "idle"
    /\ UNCHANGED <<now, running, config, state, cycle_id, state_start_time,
                   total_cycles, cycles_last_hour, last_telemetry, emitted,
                   completions, telemetry_calls, trimmer_events,
                   telemetry_rows, last_jpeg, last_area, last_present,
                   connected, store, pc, loc, iter, samples, snapshots,
                   instants, sloc, hargs, hpc, reqs>>
    /\ UNCHANGED auxVars

\* 'current_lot': self.current_lot; the lock is released, the response sent
StatusReadLot ==
    /\ spc = "lot"
    /\ response' = <<sloc.present, sloc.area, sloc.state, sloc.total,
                     current_lot>>
    /\ frame_lock' = "free"
    /\ spc' = "idle"
    /\ UNCHANGED <<now, running, config, statVars, last_jpeg, last_area,
                   last_present, connected, store, pc, loc, iter, samples,
                   snapshots, instants, sloc, hargs, hpc, reqs>>
    /\ UNCHANGED auxVars

status ==
    StatusBegin \/ StatusLock \/ StatusReadState \/ StatusReadTotal
    \/ StatusReadLot

(***************************************************************************)
(* The monitoring thread beside the request handlers.                      *)
(***************************************************************************)
MonitorStep(bound, delays, backoffs) ==
    \/ LoopTop(bound)
    \/ ReadRoiX \/ ReadRoiY \/ ReadRoiW \/ ReadRoiH
    \/ ReadThreshold \/ ReadMinArea \/ Publish
    \/ StateMachine \/ GetLot \/ LogPlaced \/ LogPushed
    \/ Telemetry
    \/ Sleep(delays) \/ Except(backoffs)

Next ==
    \/ start
    \/ MonitorStep(WebIter, WebDelays, WebBackoffs)
    \/ ConfigRequest
    \/ status

Spec == Init /\ [][Next]_vars

(***************************************************************************)
(* The monitoring thread alone.                                            *)
(***************************************************************************)
NextLoop ==
    \/ start
    \/ MonitorStep(MaxIter, Delays, Backoffs)

SpecLoop == Init /\ [][NextLoop]_vars

(***************************************************************************)
(* Saving and reloading the live configuration, with the loop not yet      *)
(* started.                                                                *)
(***************************************************************************)
\* number of save and reload requests
CfgReq == 2

\* live configurations that set_roi, set_threshold and set_min_area can have
\* left before the save
LiveConfigs ==
    {TrimmerConfig(x, y, 50, 60, t, m) :
        x \in {0, 100}, y \in {0, 120}, t \in {0, 90}, m \in {0, 500}}

InitConfig ==
    /\ InitApp
    /\ InitTools
    /\ connected \in BOOLEAN
    /\ store \in (IF connected THEN StoreRows ELSE {NullRow})
    /\ config \in LiveConfigs
    /\ mpc = "ready"

NextConfig ==
    \/ SaveConfig(CfgReq)
    \/ ReloadConfig(CfgReq)

SpecConfig == InitConfig /\ [][NextConfig]_vars

(***************************************************************************)
(* The monitoring thread beside every route of setup_routes.               *)
(***************************************************************************)
\* /: the page is rendered from self.config
index ==
    /\ reqs < MaxReq
    /\ reqs' = reqs + 1
    /\ UNCHANGED <<now, running, config, statVars, pubVars, connected, store,
                   pc, loc, iter, samples, snapshots, instants, spc, sloc,
                   response, hargs, hpc, auxVars>>

\* /stream: with self.frame_lock: data = self.last_jpeg
stream ==
    /\ reqs < MaxReq
    /\ frame_lock = "free"
    /\ reqs' = reqs + 1
    /\ UNCHANGED <<now, running, config, statVars, pubVars, connected, store,
                   pc, loc, iter, samples, snapshots, instants, spc, sloc,
                   response, hargs, hpc, auxVars>>

\* /events: self.recent_events is returned
events ==
    /\ reqs < MaxReq
    /\ reqs' = reqs + 1
    /\ UNCHANGED <<now, running, config, statVars, pubVars, connected, store,
                   pc, loc, iter, samples, snapshots, instants, spc, sloc,
                   response, hargs, hpc, auxVars>>

\* a request handler takes a step
Request == ConfigRequest \/ status \/ index \/ stream \/ events

NextRoutes ==
    \/ start
    \/ MonitorStep(WebIter, WebDelays, WebBackoffs)
    \/ ConfigRequest
    \/ status
    \/ index
    \/ stream
    \/ events

SpecRoutes == Init /\ [][NextRoutes]_vars

(***************************************************************************)
(* The monitoring thread beside /status requests.                          *)
(***************************************************************************)
\* the keys of the JSON object that /status returns
StatusKeys == {"present", "area", "state", "total_cycles", "cycles_per_hour",
               "current_lot", "uptime"}

NextStatus ==
    \/ start
    \/ MonitorStep(WebIter, Delays, Backoffs)
    \/ status

SpecStatus == Init /\ [][NextStatus]_vars

(***************************************************************************)
(* Shutdown: app.run() returns in start(), stop() runs, main() closes the  *)
(* database and returns, which ends the daemon monitoring thread.          *)
(***************************************************************************)
\* while self.running: is false, monitor_loop returns
LoopExit ==
    /\ pc = "loop"
    /\ ~running
    /\ pc' = "exited"
    /\ UNCHANGED <<now, running, config, statVars, pubVars, loc, connected,
                   store, webVars, iter, samples, snapshots, instants,
                   auxVars>>

\* finally: self.stop() -- self.running = False
StopRequest ==
    /\ mpc = "serving"
    /\ running' = FALSE
    /\ mpc' = "join"
    /\ UNCHANGED <<now, pc, config, statVars, pubVars, loc, connected, store,
                   webVars, iter, samples, snapshots, instants, written,
                   fails, toolVars>>

\* self.monitor_thread.join(timeout=2) returns: the thread has ended, or the
\* 2 s have passed with the thread still inside its iteration, whose
\* duration (capture, database calls, sleep) the code does not bound
Join ==
    /\ mpc = "join"
    /\ pc # "loop"
    /\ mpc' = "camera"
    /\ UNCHANGED <<now, running, pc, config, statVars, pubVars, loc,
                   connected, store, webVars, iter, samples, snapshots,
                   instants, written, fails, toolVars>>

\* self.picam2.stop(); the summary is printed and start() returns
CameraStop ==
    /\ mpc = "camera"
    /\ mpc' = "close"
    /\ UNCHANGED <<now, running, pc, config, statVars, pubVars, loc,
                   connected, store, webVars, iter, samples, snapshots,
                   instants, written, fails, toolVars>>

\* db.close()
DbClose ==
    /\ mpc = "close"
    /\ mpc' = "closed"
    /\ UNCHANGED <<now, running, pc, config, statVars, pubVars, loc,
                   connected, store, webVars, iter, samples, snapshots,
                   instants, written, fails, toolVars>>

\* return 0: the process ends and the daemon thread with it
MainReturn ==
    /\ mpc = "closed"
    /\ mpc' = "exited"
    /\ pc' = "exited"
    /\ UNCHANGED <<now, running, config, statVars, pubVars, loc,
                   connected, store, webVars, iter, samples, snapshots,
                   instants, written, fails, toolVars>>

stop == StopRequest \/ Join \/ CameraStop

NextStop ==
    \/ start
    \/ MonitorStep(WebIter, Delays, Backoffs)
    \/ LoopExit
    \/ stop
    \/ DbClose
    \/ MainReturn

SpecStop == Init /\ [][NextStop]_vars

(***************************************************************************)
(* main(): the database is opened, the configuration loaded, and the       *)
(* application constructed and started, or main returns 1.                 *)
(***************************************************************************)
\* load_trimmer_config returned None
NoConfig == NullRow
\* secondary_machines has no row of this machine
NoRow == [missing |-> TRUE]

\* db.load_trimmer_config(machine_id): the stub configuration without a
\* connection, None for a missing row or a failed query, else the row's
LoadTrimmerConfig(conn, dbres, row) ==
    IF ~conn THEN StubConfig
    ELSE IF dbres = "Error" \/ row = NoRow THEN NoConfig
    ELSE load_trimmer_config(row)

\* main() has built ConnectVisionDB and is about to load the configuration
InitMain ==
    /\ InitApp
    /\ InitTools
    /\ connected \in BOOLEAN
    /\ store \in (IF connected THEN StoreRows \cup {NoRow} ELSE {NullRow})
    /\ config = NoConfig
    /\ mpc = "main"

\* config = db.load_trimmer_config(args.machine_id); if not config: return 1;
\* app = TrimmerMonitorApp(machine_id, db, config)
MainLoad ==
    /\ mpc = "main"
    /\ \E dbres \in DbResults :
         LET c == LoadTrimmerConfig(connected, dbres, store) IN
           /\ config' = c
           /\ mpc' = IF c = NoConfig THEN "return_1" ELSE "ready"
    /\ UNCHANGED <<now, running, pc, statVars, pubVars, loc, connected, store,
                   webVars, iter, samples, snapshots, instants, written,
                   fails, toolVars>>

NextMain ==
    \/ MainLoad
    \/ start
    \/ MonitorStep(WebIter, Delays, Backoffs)

SpecMain == InitMain /\ [][NextMain]_vars

(***************************************************************************)
(* scripts/trimmer_monitor.py: TrimmerMonitor, the monitor without the web *)
(* interface.  Its whole loop is in run(), in one thread.                  *)
(***************************************************************************)
\* run(): the loop is entered
run ==
    /\ pc = "init"
    /\ mpc = "ready"
    /\ pc' = "detect"
    /\ mpc' = "serving"
    /\ UNCHANGED <<now, running, config, statVars, pubVars, loc, connected,
                   store, webVars, iter, samples, snapshots, instants, written,
                   fails, toolVars>>

\* is_present, area = self.detect_presence()
detect_presence(bound) ==
    /\ pc = "detect"
    /\ iter < bound
    /\ iter' = iter + 1
    /\ \E a \in Areas :
         LET r == [rows |-> Slice(config.roi_y, config.roi_y + config.roi_h,
                                  FrameH),
                   cols |-> Slice(config.roi_x, config.roi_x + config.roi_w,
                                  FrameW)]
         IN
         /\ loc' = [loc EXCEPT !.x = config.roi_x, !.y = config.roi_y,
                       !.w = config.roi_w, !.h = config.roi_h, !.roi = r,
                       !.thr = config.threshold, !.min_area = config.min_area,
                       !.area = a, !.is_present = (a >= config.min_area),
                       !.raised = IF IsEmpty(r) THEN "cvtColor" ELSE "none"]
         /\ pc' = IF IsEmpty(r) THEN "cleanup" ELSE "update"
    /\ UNCHANGED <<now, running, config, statVars, pubVars, connected, store,
                   webVars, samples, snapshots, instants, auxVars>>

\* self.update_state(is_present, area)
update_state ==
    /\ pc = "update"
    /\ LET current_time == now
           time_in_state == current_time - state_start_time
           br == Branch(state, loc.is_present, time_in_state)
       IN
       \E lot \in get_active_lot(connected), dbres1 \in DbResults,
          dbres2 \in DbResults :
         LET r0 == log_event(PlacedKw, connected, dbres1)
             r1 == log_event(PushedKw, connected, dbres1)
             r2 == log_event(CycleKw, connected, dbres2)
             placed == [type |-> "placed_in",
                        cycle_id |-> CycleIdOf(current_time), lot |-> lot,
                        at |-> iter]
             raises == \/ br = "place" /\ r0 = "TypeError"
                       \/ br = "push" /\ "TypeError" \in {r1, r2}
             counted == br = "push" /\ ~raises
         IN
         /\ loc' = [loc EXCEPT !.current_time = current_time,
                       !.raised = IF raises THEN "log_event" ELSE "none"]
         /\ samples' = Append(samples, [present |-> loc.is_present,
                                        t |-> current_time, from |-> state])
         /\ state' = CASE br = "place" -> PART_PLACED
                       [] br = "false_start" -> EMPTY
                       [] br = "trim" -> TRIMMING
                       [] br = "push" -> EMPTY
                       [] OTHER -> state
         /\ state_start_time' = IF br = "stay" THEN state_start_time
                                ELSE current_time
         /\ cycle_id' = CASE br = "place" -> CycleIdOf(current_time)
                          [] br = "false_start" -> None
                          [] counted -> None
                          [] OTHER -> cycle_id
         /\ current_lot' = CASE br = "place" -> lot
                             [] counted -> NoLot
                             [] OTHER -> current_lot
         /\ completions' = IF br = "push"
                           THEN Append(completions, current_time)
                           ELSE completions
         /\ emitted' =
              CASE br = "place" -> Append(emitted, placed)
                [] br = "push" /\ r1 = "TypeError" ->
                     Append(emitted, Event("pushed_out"))
                [] br = "push" ->
                     emitted \o <<Event("pushed_out"), Event("CYCLE")>>
                [] OTHER -> emitted
         /\ trimmer_events' =
              CASE br = "place" /\ r0 = "id" -> Append(trimmer_events, placed)
                [] br = "push" /\ r1 = "id" /\ r2 = "id" ->
                     trimmer_events
                        \o <<Event("pushed_out"), Event("CYCLE")>>
                [] br = "push" /\ r1 = "id" ->
                     Append(trimmer_events, Event("pushed_out"))
                [] br = "push" /\ r1 = "None" /\ r2 = "id" ->
                     Append(trimmer_events, Event("CYCLE"))
                [] OTHER -> trimmer_events
         /\ total_cycles' = IF counted THEN total_cycles + 1 ELSE total_cycles
         /\ cycles_last_hour' = IF counted
                                THEN Append(cycles_last_hour, current_time)
                                ELSE cycles_last_hour
         /\ pc' = IF raises THEN "cleanup" ELSE "run_telemetry"
    /\ UNCHANGED <<now, running, config, last_telemetry, telemetry_calls,
                   telemetry_rows, pubVars, connected, store, webVars, iter,
                   snapshots, instants, auxVars>>

\* if time.time() - self.last_telemetry >= self.telemetry_interval:
\*     self.send_telemetry()
send_telemetry ==
    /\ pc = "run_telemetry"
    /\ IF now - last_telemetry >= TelemetryMs THEN
         LET kept == Prune(cycles_last_hour, now - HourMs) IN
         /\ cycles_last_hour' = kept
         /\ telemetry_calls' = Append(telemetry_calls,
                [at |-> now, count |-> Len(kept), kept |-> kept,
                 seen |-> Len(completions)])
         /\ \E dbres \in DbResults :
              LET r == log_telemetry(TelemetryKw, connected, dbres) IN
                /\ telemetry_rows' = IF r = "True" THEN telemetry_rows + 1
                                     ELSE telemetry_rows
                /\ last_telemetry' = IF r = "TypeError" THEN last_telemetry
                                     ELSE now
                /\ loc' = [loc EXCEPT !.raised = IF r = "TypeError"
                                       THEN "log_telemetry" ELSE "none"]
                /\ pc' = IF r = "TypeError" THEN "cleanup" ELSE "run_sleep"
       ELSE
         /\ pc' = "run_sleep"
         /\ UNCHANGED <<cycles_last_hour, telemetry_calls, telemetry_rows,
                        last_telemetry, loc>>
    /\ UNCHANGED <<now, running, config, state, cycle_id, current_lot,
                   state_start_time, total_cycles, emitted, completions,
                   trimmer_events, pubVars, connected, store, webVars,
                   iter, samples, snapshots, instants, auxVars>>

\* time.sleep(0.1)
RunSleep(delays) ==
    /\ pc = "run_sleep"
    /\ \E d \in delays : now' = now + d
    /\ pc' = "detect"
    /\ UNCHANGED <<running, config, statVars, pubVars, loc, connected, store,
                   webVars, iter, samples, snapshots, instants, auxVars>>

\* finally: self.cleanup(); an exception other than KeyboardInterrupt then
\* leaves run() and main(), and the process ends
cleanup ==
    /\ pc = "cleanup"
    /\ pc' = "dead"
    /\ mpc' = "exited"
    /\ UNCHANGED <<now, running, config, statVars, pubVars, loc, connected,
                   store, webVars, iter, samples, snapshots, instants, written,
                   fails, toolVars>>

NextV1 ==
    \/ run
    \/ detect_presence(MaxIter)
    \/ update_state
    \/ send_telemetry
    \/ RunSleep(Delays)
    \/ cleanup

SpecV1 == Init /\ [][NextV1]_vars

(***************************************************************************)
(* ChuckEventDetector of src/connectvision/events.py.                      *)
(***************************************************************************)
MaxFrames == 7
DebounceFrames == 2
MinEventArea == 500

\* area_sum: the moving area that step measures between two frames
AreaSums == {0, 600}

EventDetectionConfig(min_event_area, debounce_frames) ==
    [min_event_area |-> min_event_area, debounce_frames |-> debounce_frames]

DetectorConfigs ==
    {EventDetectionConfig(MinEventArea, n) : n \in {0, DebounceFrames}}

\* ChuckEventDetector.__init__
ChuckEventDetector(cfg) ==
    [cfg |-> cfg, prev_gray |-> "None", object_present |-> FALSE,
     debounce |-> 0]

DebouncingNever(d) == d.debounce < 0

\* if self.debounce > 0
Debouncing(d) == d.debounce > 0

DetectUnlatched(d, area_sum) ==
    IF area_sum >= d.cfg.min_event_area THEN "placed_in" ELSE "pushed_out"

\* the if / elif of the else branch of step
Detect(d, area_sum) ==
    CASE ~d.object_present /\ area_sum >= d.cfg.min_event_area -> "placed_in"
      [] d.object_present /\ area_sum < d.cfg.min_event_area -> "pushed_out"
      [] OTHER -> "None"

\* what a call of step met and what it returned and left
Returned(area_sum, event, d) ==
    [area_sum |-> area_sum, event |-> event,
     object_present |-> d.object_present, debounce |-> d.debounce]

\* ChuckEventDetector.step(frame)
step ==
    /\ Len(returned) < MaxFrames
    /\ \E area_sum \in AreaSums :
         LET event == IF detector.prev_gray = "None" \/ Debouncing(detector)
                      THEN "None" ELSE Detect(detector, area_sum)
             d == CASE detector.prev_gray = "None" ->
                         [detector EXCEPT !.prev_gray = "gray"]
                    [] detector.prev_gray # "None" /\ Debouncing(detector) ->
                         [detector EXCEPT !.debounce = @ - 1]
                    [] OTHER ->
                         IF event = "None" THEN detector
                         ELSE [detector EXCEPT
                                 !.object_present = (event = "placed_in"),
                                 !.debounce = detector.cfg.debounce_frames]
         IN
         /\ detector' = d
         /\ returned' = Append(returned, Returned(area_sum, event, d))
    /\ UNCHANGED <<now, running, pc, config, statVars, pubVars, loc,
                   connected, store, webVars, iter, samples, snapshots,
                   instants, written, mpc, fails, roi, key, nkeys>>

InitDetector ==
    /\ InitApp
    /\ connected = FALSE
    /\ store = NullRow
    /\ config = StubConfig
    /\ mpc = "ready"
    /\ detector \in {ChuckEventDetector(c) : c \in DetectorConfigs}
    /\ returned = <<>>
    /\ roi = InitialRoi
    /\ key = NoKey
    /\ nkeys = 0

NextDetector == step

SpecDetector == InitDetector /\ [][NextDetector]_vars

(***************************************************************************)
(* scripts/roi_selector.py.                                                *)
(***************************************************************************)
MaxKeys == 4
RoiStep == 5
MinSide == 10

Max2(a, b) == IF a >= b THEN a ELSE b
Min2(a, b) == IF a <= b THEN a ELSE b

\* key codes: arrows 82 84 81 83 (or 0 1 2 3), + = w, - _ s, a, d, c, q, ESC
UpKeys == {82, 0}
DownKeys == {84, 1}
LeftKeys == {81, 2}
RightKeys == {83, 3}
WiderKeys == {43, 61, 119}
NarrowerKeys == {45, 95, 115}
ShorterKeys == {97}
TallerKeys == {100}
PrintKeys == {99}
QuitKeys == {113, 27}
KeyCodes == {82, 84, 81, 83, 0, 43, 119, 45, 115, 97, 100, 99, 113, 27, NoKey}

Up(r) == Max2(0, r[2] - RoiStep)
Down(r) == Min2(FrameH - r[4], r[2] + RoiStep)
Left(r) == Max2(0, r[1] - RoiStep)

RightUnclamped(r) == r[1] + RoiStep

Right(r) == Min2(FrameW - r[3], r[1] + RoiStep)
Wider(r) == Min2(FrameW - r[1], r[3] + RoiStep)
Narrower(r) == Max2(MinSide, r[3] - RoiStep)
Shorter(r) == Max2(MinSide, r[4] - RoiStep)
Taller(r) == Min2(FrameH - r[2], r[4] + RoiStep)

\* regions the keys lead to from InitialRoi: the corners and the whole frame
Regions ==
    {InitialRoi, <<0, 0, 10, 10>>, <<440, 280, 200, 200>>,
     <<630, 470, 10, 10>>, <<0, 0, 640, 480>>}

\* one turn of the while loop of main: key = cv2.waitKey(30) & 0xFF and the
\* if / elif chain
press ==
    /\ nkeys < MaxKeys
    /\ key \notin QuitKeys
    /\ \E k \in KeyCodes :
         /\ key' = k
         /\ roi' = CASE k \in UpKeys -> [roi EXCEPT ![2] = Up(roi)]
                     [] k \in DownKeys -> [roi EXCEPT ![2] = Down(roi)]
                     [] k \in LeftKeys -> [roi EXCEPT ![1] = Left(roi)]
                     [] k \in RightKeys -> [roi EXCEPT ![1] = Right(roi)]
                     [] k \in WiderKeys -> [roi EXCEPT ![3] = Wider(roi)]
                     [] k \in NarrowerKeys -> [roi EXCEPT ![3] = Narrower(roi)]
                     [] k \in ShorterKeys -> [roi EXCEPT ![4] = Shorter(roi)]
                     [] k \in TallerKeys -> [roi EXCEPT ![4] = Taller(roi)]
                     [] OTHER -> roi
    /\ nkeys' = nkeys + 1
    /\ UNCHANGED <<now, running, pc, config, statVars, pubVars, loc,
                   connected, store, webVars, iter, samples, snapshots,
                   instants, written, mpc, fails, detector, returned>>

InitSelector ==
    /\ InitApp
    /\ connected = FALSE
    /\ store = NullRow
    /\ config = StubConfig
    /\ mpc = "ready"
    /\ detector = ChuckEventDetector(
                      EventDetectionConfig(MinEventArea, DebounceFrames))
    /\ returned = <<>>
    /\ roi \in Regions
    /\ key = NoKey
    /\ nkeys = 0

NextSelector == press

SpecSelector == InitSelector /\ [][NextSelector]_vars

(***************************************************************************)
(* Properties of the cycle state machine.                                  *)
(***************************************************************************)
\* the monitoring thread is between two iterations
AtBoundary == pc \in {"init", "loop"}

EventTypes(es) == [i \in 1..Len(es) |-> es[i].type]
Presence(ss) == [i \in 1..Len(ss) |-> ss[i].present]

\* the names under which the completed-cycle event is known
CycleComplete == {"cycle_complete", "CYCLE"}

\* C1: after every fully processed sample (also one whose iteration was
\* abandoned by the exception handler) cycle_id is set iff the phase is not
\* EMPTY.
C1_CycleIdIffNotEmpty ==
    AtBoundary => ((cycle_id # None) <=> (state # EMPTY))

\* C2: every pushed_out is followed at once, on the same sample and with the
\* same cycle_id, by the cycle-complete event, and the cycle-complete event
\* only ever follows such a pushed_out; no cycle_id is carried by two
\* placed_in events; every pushed_out / cycle-complete carries the cycle_id of
\* an earlier placed_in.
C2_PlacedThenPairOrNothing ==
    AtBoundary =>
      /\ \A i \in 1..Len(emitted) :
           emitted[i].type = "pushed_out" =>
             /\ i < Len(emitted)
             /\ emitted[i + 1].type \in CycleComplete
             /\ emitted[i + 1].cycle_id = emitted[i].cycle_id
             /\ emitted[i + 1].at = emitted[i].at
      /\ \A i \in 1..Len(emitted) :
           emitted[i].type \in CycleComplete =>
             /\ i > 1
             /\ emitted[i - 1].type = "pushed_out"
             /\ emitted[i - 1].cycle_id = emitted[i].cycle_id
      /\ \A i, j \in 1..Len(emitted) :
           (i < j /\ emitted[i].type = "placed_in"
                  /\ emitted[j].type = "placed_in")
             => emitted[i].cycle_id # emitted[j].cycle_id
      /\ \A i \in 1..Len(emitted) :
           emitted[i].type # "placed_in" =>
             \E j \in 1..(i - 1) :
               /\ emitted[j].type = "placed_in"
               /\ emitted[j].cycle_id = emitted[i].cycle_id

\* the time of the EMPTY -> PART_PLACED transition of the cycle in progress
PlacedAt ==
    LET ks == {k \in 1..Len(samples) :
                 samples[k].from = EMPTY /\ samples[k].present}
    IN IF ks = {} THEN None
       ELSE samples[CHOOSE k \in ks : \A m \in ks : m <= k].t

\* C3: the phase becomes TRIMMING only from PART_PLACED, on a present sample
\* taken strictly more than 1.0 s after the EMPTY -> PART_PLACED transition
\* (phase_start_time is that transition's time); an absent sample in
\* PART_PLACED ends the cycle in EMPTY, and whether the threshold is passed
\* does not depend on how many samples were seen.
C3_DwellEnforced ==
    [][ /\ (state' = TRIMMING /\ state # TRIMMING) =>
             /\ state = PART_PLACED
             /\ loc.is_present
             /\ state_start_time = PlacedAt
             /\ now - PlacedAt > DwellMs
        /\ (pc = "sm" /\ state = PART_PLACED /\ ~loc.is_present) =>
             state' = EMPTY
        /\ (pc = "sm" /\ state = PART_PLACED /\ loc.is_present
              /\ now - state_start_time <= DwellMs) =>
             state' = PART_PLACED
      ]_vars

\* C3 witness: TRIMMING was entered on the third sample of a cycle, after a
\* present sample at a dwell of exactly 1.0 s had left the phase PART_PLACED.
C3_Witness ==
    /\ state = TRIMMING
    /\ \E k \in 1..Len(samples) :
         /\ samples[k].from = PART_PLACED
         /\ samples[k].present
         /\ samples[k].t - PlacedAt = DwellMs
         /\ k < Len(samples)
         /\ samples[k + 1].from = PART_PLACED

\* the samples absent, present, ..., present, absent, with a present sample
\* taken more than 1.0 s after the first present one
FullCycleScenario ==
    /\ Len(samples) >= 4
    /\ iter = Len(samples)
    /\ ~samples[1].present
    /\ ~samples[Len(samples)].present
    /\ \A k \in 2..(Len(samples) - 1) : samples[k].present
    /\ \E k \in 3..(Len(samples) - 1) : samples[k].t - samples[2].t > DwellMs

\* C4: after the full-cycle scenario the events are placed_in, pushed_out,
\* cycle-complete with one cycle_id, the phase is EMPTY with cycle_id and lot
\* cleared, total_cycles is 1 and the window holds one completion.
C4_FullCycle ==
    (AtBoundary /\ FullCycleScenario) =>
      /\ Len(emitted) = 3
      /\ emitted[1].type = "placed_in"
      /\ emitted[2].type = "pushed_out"
      /\ emitted[3].type \in CycleComplete
      /\ emitted[2].cycle_id = emitted[1].cycle_id
      /\ emitted[3].cycle_id = emitted[1].cycle_id
      /\ state = EMPTY
      /\ cycle_id = None
      /\ current_lot = NoLot
      /\ total_cycles = 1
      /\ Len(cycles_last_hour) = 1

\* the samples absent, present, absent, the last one no more than 1.0 s
\* after the placement
FalseStartScenario ==
    /\ iter = 3
    /\ Presence(samples) = <<FALSE, TRUE, FALSE>>
    /\ samples[3].t - samples[2].t <= DwellMs

WindowCount(ts, n, at) ==
    Cardinality({i \in 1..n : at - HourMs < ts[i] /\ ts[i] <= at})

\* C6: every cycles_per_hour computed at a time `at` (telemetry step and
\* /status) is the number of completions in (at - 3600 s, at], and after the
\* telemetry step's prune no stored timestamp is older than at - 3600 s.
C6_SlidingWindow ==
    /\ \A i \in 1..Len(telemetry_calls) :
         LET c == telemetry_calls[i] IN
           /\ c.count = WindowCount(completions, c.seen, c.at)
           /\ \A k \in 1..Len(c.kept) : c.kept[k] > c.at - HourMs
    /\ spc # "idle" =>
         sloc.cycles = WindowCount(completions, sloc.seen, sloc.at)

\* the region lies entirely inside the 640x480 frame
InsideFrame(x, y, w, h) ==
    /\ x >= 0 /\ y >= 0 /\ w > 0 /\ h > 0
    /\ x + w <= FrameW /\ y + h <= FrameH

\* C7: whenever the region read by the sampling step is not entirely inside
\* the frame, the step samples the full frame and does not raise.
C7_OutOfFrameUsesFullFrame ==
    ((pc = "threshold" \/ loc.raised = "cvtColor")
       /\ ~InsideFrame(loc.x, loc.y, loc.w, loc.h))
      => (loc.roi = FullFrame /\ loc.raised # "cvtColor")

\* C8: a step of a configuration request leaves the cycle in progress, the
\* monitoring thread and everything it has published or logged as they are.
C8_ConfigRequestFrame ==
    [][ConfigRequest =>
          UNCHANGED <<state, cycle_id, current_lot, state_start_time,
                      total_cycles, cycles_last_hour, last_telemetry, pc, loc,
                      pubVars, emitted, completions, response>>]_vars

\* C8 witness: a set_roi request is half done while a cycle is in progress.
C8_Witness ==
    /\ hpc = "set_roi_w"
    /\ state = TRIMMING
    /\ cycle_id # None
    /\ config.roi_x = hargs[1]

\* the status values that stand at the end of the iteration in progress, once
\* the iteration has nothing left to write to them
Final == IF pc \in {"telemetry", "sleep", "except"} THEN {StatusNow} ELSE {}

\* C9: every /status response equals the values that held at the end of one
\* iteration (or the initial values).
C9_StatusIsSnapshot == response \in (snapshots \cup Final)

\* the configuration the sampling step has used
Used == TrimmerConfig(loc.x, loc.y, loc.w, loc.h, loc.thr, loc.min_area)

\* C10: the region, threshold and min_area a sampling step has used are
\* together the live configuration as it stood at one instant of the step,
\* and the rectangle on the published image is that region.
C10_SampleUsesOneConfig ==
    /\ pc = "publish" => Used \in instants
    /\ (pc = "sm" /\ iter > 0) =>
         last_jpeg.rect = <<loc.x, loc.y, loc.w, loc.h>>

(***************************************************************************)
(* Properties of the live configuration.                                   *)
(***************************************************************************)
\* the monitoring thread moves from one position to another
LoopMoves(from, to) == pc = from /\ pc' = to

\* the value a read of a field must return while a setter's write stands
Stands(w, v) == w # <<>> => v = w[1]

LastSample == samples[Len(samples)]

\* C12: whatever the outcome of the database calls of an iteration, the
\* transition its sample decided is applied in full: after a placement the
\* phase is PART_PLACED with the cycle_id of the sample's time, and after a
\* TRIMMING -> EMPTY sample the phase is EMPTY, total_cycles counts the
\* completion, its time is in the window and cycle_id and current_lot are
\* cleared.
C12_TransitionAppliedInFull ==
    (AtBoundary /\ samples # <<>>) =>
        /\ (LastSample.from = EMPTY /\ LastSample.present) =>
              /\ state = PART_PLACED
              /\ state_start_time = LastSample.t
              /\ cycle_id = CycleIdOf(LastSample.t)
        /\ (LastSample.from = TRIMMING /\ ~LastSample.present) =>
              /\ state = EMPTY
              /\ state_start_time = LastSample.t
              /\ total_cycles = Len(completions)
              /\ \E i \in 1..Len(cycles_last_hour) :
                    cycles_last_hour[i] = LastSample.t
              /\ cycle_id = None
              /\ current_lot = NoLot

\* positions of a monitoring loop that has ended
Ended == {"cleanup", "dead", "exited"}

\* C13: while shutdown has not been requested, a call that raised inside an
\* iteration does not end the monitoring loop: the loop is not left.
C13_FailureNeverEndsLoop ==
    (mpc = "serving" /\ loc.raised # "none") => pc \notin Ended

\* the work of an iteration is over, its sleep is still to come
IterationOver == pc \in {"sleep", "except"}

\* C14: an iteration that finds at least 60 s elapsed since the last telemetry
\* emission makes a log_telemetry call, in every phase and whether or not a
\* log_event call of the same iteration failed.
C14_TelemetryEveryDueIteration ==
    (IterationOver /\ now - last_telemetry >= TelemetryMs) =>
        \E i \in 1..Len(telemetry_calls) : telemetry_calls[i].at = now

(***************************************************************************)
(* Shutdown.                                                               *)
(***************************************************************************)
\* positions of the main thread at which the camera has been stopped
Released == {"close", "closed", "exited"}

\* the monitoring thread captures a frame or calls the database
LoopTouchesResources ==
    \/ LoopMoves("loop", "roi_x")
    \/ pc \in {"get_lot", "log_placed", "log_pushed"} /\ pc' # pc
    \/ telemetry_calls' # telemetry_calls

\* C15: the camera is stopped and the database closed only after the
\* monitoring loop has exited, and the loop captures no frame and calls the
\* database no more once either has been released.
C15_LoopExitsBeforeRelease ==
    [][ /\ (mpc \notin Released /\ mpc' \in Released) => pc = "exited"
        /\ mpc \in Released => ~LoopTouchesResources ]_vars

(***************************************************************************)
(* Startup.                                                                *)
(***************************************************************************)
\* C16: monitoring is started only on a configuration read from the row of
\* the machine: with the store unreachable, the row missing or the query
\* failed, main has returned 1 and the loop is never started.
C16_StartupFailsClosed ==
    /\ pc # "init" =>
          connected /\ store # NoRow /\ config = load_trimmer_config(store)
    /\ mpc = "return_1" => pc = "init" /\ ~running

(***************************************************************************)
(* The status shown to the operator.                                       *)
(***************************************************************************)
\* a /status response carries a DEGRADED indication
ShowsDegraded(resp) == "degraded" \in StatusKeys \/ resp[3] = "DEGRADED"

\* C17: a /status response shows DEGRADED exactly when the last three or
\* more iterations of the monitoring loop were all abandoned.
C17_DegradedAfterThreeFailures ==
    [][(spc = "lot" /\ spc' = "idle") =>
          (ShowsDegraded(response') <=> fails >= 3)]_vars

(***************************************************************************)
(* Who writes the cycle state.                                             *)
(***************************************************************************)
\* positions of monitor_loop whose step assigns a field of the cycle state
WriterPcs == {"sm", "get_lot", "log_pushed", "telemetry"}

\* C18: state, cycle_id, current_lot, state_start_time, total_cycles and
\* cycles_last_hour change only in a step of the monitoring thread; no step
\* of a request handler changes any of them, and the phase changes only in
\* the state machine block, to the phase that the sample and the time spent
\* in the phase decide.
C18_SingleWriter ==
    [][ /\ Request => UNCHANGED cycleVars
        /\ (webVars' # webVars \/ config' # config \/ store' # store)
             => UNCHANGED cycleVars
        /\ cycleVars' # cycleVars => pc \in WriterPcs /\ pc' # pc
        /\ state' # state =>
             /\ pc = "sm"
             /\ Branch(state, loc.is_present, now - state_start_time)
                  \in {"place", "false_start", "trim", "push"} ]_vars

\* a /status request was served during a cycle, whose lot and cycle_id stand
C18_Witness ==
    /\ spc = "idle" /\ reqs >= 1
    /\ response[3] = PART_PLACED /\ response[5] \in Lots
    /\ state = PART_PLACED /\ current_lot = response[5] /\ cycle_id # None

(***************************************************************************)
(* The lot and the cycle_id of a cycle.                                    *)
(***************************************************************************)
\* C19: between iterations, whenever the phase is EMPTY current_lot is null
\* (and cycle_id with it), after a completed cycle and after a false start.
C19_LotNullWhenEmpty ==
    (AtBoundary /\ state = EMPTY) => current_lot = NoLot

\* the samples that placed a part, and the placed_in calls made for them
Placements == SelectSeq(samples, LAMBDA x : x.from = EMPTY /\ x.present)
PlacedEvents == SelectSeq(emitted, LAMBDA e : e.type = "placed_in")

\* C20: the cycle_ids given to any two placements of a session differ; each is
\* the millisecond time of its placement sample.
C20_CycleIdUnique ==
    /\ \A i \in 1..Len(PlacedEvents) :
          /\ i <= Len(Placements)
          /\ PlacedEvents[i].cycle_id # None
          /\ PlacedEvents[i].cycle_id = CycleIdOf(Placements[i].t)
    /\ \A i \in 1..Len(PlacedEvents), j \in 1..Len(PlacedEvents) :
          i < j => PlacedEvents[i].cycle_id # PlacedEvents[j].cycle_id
    /\ \A i \in 1..Len(Placements), j \in 1..Len(Placements) :
          i < j => CycleIdOf(Placements[i].t) # CycleIdOf(Placements[j].t)

\* a false start at one sample and a new placement at the very next one
C20_Witness ==
    /\ AtBoundary
    /\ Len(PlacedEvents) >= 2
    /\ \E k \in 1..(Len(samples) - 1) :
          /\ samples[k].from = PART_PLACED /\ ~samples[k].present
          /\ samples[k + 1].from = EMPTY /\ samples[k + 1].present

(***************************************************************************)
(* The configuration and the store.                                        *)
(***************************************************************************)
\* C21: with the store connected, a reload_config that follows a successful
\* save_config of the live configuration, with no write in between, leaves
\* the live configuration equal to the one saved, field by field.
C21_SaveReloadRoundTrip ==
    [][(ReloadConfig(CfgReq) /\ connected /\ store = config)
          => config' = config]_vars

\* C22: whenever no request is in the middle of its writes, the live
\* configuration has a threshold in 0..255, a min_area of at least 0 and a
\* region inside the 640x480 frame.
C22_ConfigInRange ==
    hpc = "idle" =>
        /\ config.threshold >= 0 /\ config.threshold <= 255
        /\ config.min_area >= 0
        /\ config.roi_x >= 0 /\ config.roi_y >= 0
        /\ config.roi_w >= 0 /\ config.roi_h >= 0
        /\ config.roi_x + config.roi_w <= FrameW
        /\ config.roi_y + config.roi_h <= FrameH

(***************************************************************************)
(* The contract of log_event and log_telemetry.                            *)
(***************************************************************************)
\* the ways the monitors and test_db call log_event
EventCalls == {PlacedKw, PushedKw, CycleKw, TestDbEventKw}

\* C23: once the loop has made a log_event or log_telemetry call, no call
\* has raised to it; and log_event, called the way the monitors and test_db
\* call it, returns an id when the store is connected and accepts the
\* insert and None otherwise, log_telemetry likewise True or False.
C23_LogEventContract ==
    (emitted # <<>> \/ telemetry_calls # <<>>) =>
        /\ loc.raised \notin {"log_event", "log_telemetry"}
        /\ \A kw \in EventCalls, dbres \in DbResults :
              log_event(kw, connected, dbres)
                 = IF connected /\ dbres = "ok" THEN "id" ELSE "None"
        /\ \A dbres \in DbResults :
              log_telemetry(TelemetryKw, connected, dbres)
                 = IF connected /\ dbres = "ok" THEN "True" ELSE "False"

(***************************************************************************)
(* The cycle counter.                                                      *)
(***************************************************************************)
\* C24: between iterations total_cycles is the number of TRIMMING -> EMPTY
\* transitions made so far, and the window has at most that many entries.
C24_TotalCountsCompletions ==
    AtBoundary =>
        /\ total_cycles = Len(completions)
        /\ Len(cycles_last_hour) <= total_cycles

(***************************************************************************)
(* The order of the steps of an iteration.                                 *)
(***************************************************************************)
\* C25: when an iteration has run to its sleep, the image it published shows
\* the phase and the lot that its own state machine update has left.
C25_PublishAfterUpdate ==
    pc = "sleep" =>
        /\ last_jpeg.state = state
        /\ last_jpeg.lot = current_lot

(***************************************************************************)
(* The rows of the transition table that change nothing.                   *)
(***************************************************************************)
\* the sample and the time in the phase that the state machine block sees
NoChangeRow ==
    \/ state = EMPTY /\ ~loc.is_present
    \/ state = PART_PLACED /\ loc.is_present
          /\ now - state_start_time <= DwellMs
    \/ state = TRIMMING /\ loc.is_present

TrimRow ==
    state = PART_PLACED /\ loc.is_present /\ now - state_start_time > DwellMs

\* the log_event calls added by a step
NewEvents == SubSeq(emitted', Len(emitted) + 1, Len(emitted'))

\* C26: a sample of a no-change row leaves state, state_start_time,
\* cycle_id, current_lot, total_cycles and the window as they are and goes on
\* to the telemetry check without a log_event call; the PART_PLACED ->
\* TRIMMING sample changes only state and state_start_time, without a call;
\* current_lot is assigned only by the placement's get_active_lot and the
\* completion's clearing, and every pushed_out and CYCLE call carries it.
C26_NoChangeRows ==
    [][ /\ (pc = "sm" /\ NoChangeRow) =>
              /\ UNCHANGED <<cycleVars, emitted>>
              /\ pc' = "telemetry"
        /\ (pc = "sm" /\ TrimRow) =>
              /\ state' = TRIMMING /\ state_start_time' = now
              /\ UNCHANGED <<cycle_id, current_lot, total_cycles,
                             cycles_last_hour, emitted>>
              /\ pc' = "telemetry"
        /\ emitted' # emitted => pc \in {"log_placed", "log_pushed"}
        /\ current_lot' # current_lot => pc \in {"get_lot", "log_pushed"}
        /\ pc = "log_pushed" =>
              \A i \in 1..Len(NewEvents) :
                 /\ NewEvents[i].lot = current_lot
                 /\ NewEvents[i].cycle_id = cycle_id ]_vars

\* a cycle placed with a lot, held through no-change samples and the trim
\* transition, whose pushed_out call carries that lot
C26_Witness ==
    /\ AtBoundary
    /\ \E i \in 1..Len(emitted), j \in 1..Len(emitted) :
          /\ i < j
          /\ emitted[i].type = "placed_in" /\ emitted[j].type = "pushed_out"
          /\ emitted[i].lot \in Lots /\ emitted[j].lot = emitted[i].lot
          /\ emitted[i].cycle_id = emitted[j].cycle_id
    /\ \E k \in 1..Len(samples) :
          samples[k].from = TRIMMING /\ samples[k].present

(***************************************************************************)
(* The pace of the calls to the sink.                                      *)
(***************************************************************************)
\* C27: two successive log_telemetry calls are at least 60 s apart, whatever
\* the first one returned or raised, and no transition's log_event call is
\* made twice.
C27_NoTightRetry ==
    /\ \A i \in 1..Len(telemetry_calls) - 1 :
          telemetry_calls[i + 1].at - telemetry_calls[i].at >= TelemetryMs
    /\ \A i \in 1..Len(emitted), j \in 1..Len(emitted) :
          (i # j) => ~(/\ emitted[i].type = emitted[j].type
                       /\ emitted[i].cycle_id = emitted[j].cycle_id)

(***************************************************************************)
(* Properties of ChuckEventDetector.step.                                  *)
(***************************************************************************)
\* the calls of step that returned an event, in order
Events == SelectSeq(returned, LAMBDA r : r.event # "None")

\* C28: the first call of step returns no event, and after a call that
\* returned an event the next debounce_frames calls return none and leave
\* object_present as that call left it, whatever area they measure.
C28_DebounceWindow ==
    /\ returned # <<>> => returned[1].event = "None"
    /\ \A i \in 1..Len(returned) :
          returned[i].event # "None" =>
             \A j \in (i + 1)..Min2(i + detector.cfg.debounce_frames,
                                    Len(returned)) :
                /\ returned[j].event = "None"
                /\ returned[j].object_present = returned[i].object_present

\* a placed_in, a full window in which a call measured an area under the
\* threshold, and the pushed_out that the call after the window returns
C28_Witness ==
    /\ detector.cfg.debounce_frames = DebounceFrames
    /\ \E i \in 1..Len(returned) :
          /\ returned[i].event = "placed_in"
          /\ i + DebounceFrames + 1 <= Len(returned)
          /\ \E j \in (i + 1)..(i + DebounceFrames) :
                returned[j].area_sum < MinEventArea
          /\ returned[i + DebounceFrames + 1].event = "pushed_out"

\* C29: the events step returns alternate, the first being placed_in, and
\* object_present is true exactly when the last one was placed_in.
C29_EventsAlternate ==
    /\ \A k \in 1..Len(Events) :
          Events[k].event = IF k % 2 = 1 THEN "placed_in" ELSE "pushed_out"
    /\ detector.object_present =
          (Events # <<>> /\ Events[Len(Events)].event = "placed_in")

\* placed_in, pushed_out and placed_in again
C29_Witness ==
    /\ Len(Events) >= 3
    /\ detector.object_present

(***************************************************************************)
(* Properties of roi_selector.py.                                          *)
(***************************************************************************)
\* C30: the region stays inside the 640 x 480 frame with sides of at least
\* 10 after any keys.
C30_RoiInsideFrame ==
    /\ roi[1] >= 0 /\ roi[2] >= 0
    /\ roi[3] >= 10 /\ roi[4] >= 10
    /\ roi[1] + roi[3] <= 640
    /\ roi[2] + roi[4] <= 480

\* the right arrow pressed with the region against the right edge, after a
\* key that made the region narrower than the frame
C30_Witness ==
    /\ nkeys >= 2
    /\ key \in RightKeys
    /\ roi[1] > 0
    /\ roi[1] + roi[3] = FrameW

====
